---- MODULE Spec2Model ----
(***************************************************************************)
(* Channel Insights data browser (app.js): the module-level state          *)
(* (currentView, currentData), the DOM controls the handlers read (search, *)
(* country filter, sort), the content and metadata areas they write, the   *)
(* fetches in flight, and the filter / sort / export pipeline.             *)
(*                                                                         *)
(* Strings whose characters matter (names, search terms) are sequences of  *)
(* one-character strings; strings only compared for equality (countries,   *)
(* views, sort options, websites) are TLA+ strings.                        *)
(***************************************************************************)
EXTENDS Integers, Sequences, FiniteSets, TLC

VARIABLES
    currentView,    \* app.js:1   let currentView
    currentData,    \* app.js:2   let currentData
    search,         \* value of the #search input
    countryFilter,  \* value of the #country-filter select
    sortOption,     \* value of the #sort select
    content,        \* innerHTML of #content
    metadataDiv,    \* innerHTML of #metadata
    pending,        \* fetches in flight: url -> number of unsettled requests
    event,          \* what the handler that ran last did and emitted
    array,          \* applySortOption harness: the argument array
    option,         \* applySortOption harness: the sort option
    keyFn,          \* applySortOption harness: "identity" or "name"
    sorted,         \* applySortOption harness: the value returned
    csvRows,        \* downloadCSV harness: the rows getCurrentFilteredData gave
    csvFile         \* downloadCSV harness: the alert or the text of the file

vars == <<currentView, currentData, search, countryFilter, sortOption, content,
          metadataDiv, pending, event, array, option, keyFn, sorted,
          csvRows, csvFile>>

appVars == <<currentView, currentData, search, countryFilter, sortOption, content,
             metadataDiv, pending, event>>

sortVars == <<array, option, keyFn, sorted>>

csvVars == <<csvRows, csvFile>>

----------------------------------------------------------------------------
(* Bounds *)

\* at most this many fetches are in flight at once
MaxInFlight == 2

\* longest array handed to applySortOption by the harness
MaxLen == 3

\* longest field value handed to downloadCSV by the harness
MaxFieldLen == 2

----------------------------------------------------------------------------
(* Strings *)

\* String.prototype.toLowerCase on one character of the alphabet {a, b, A, B}
LowerChar(c) == IF c = "A" THEN "a" ELSE IF c = "B" THEN "b" ELSE c

toLowerCase(s) == [i \in 1..Len(s) |-> LowerChar(s[i])]

\* String.prototype.includes: t occurs in s at some offset
includes(s, t) ==
    \E i \in 0..(Len(s) - Len(t)) : SubSeq(s, i + 1, i + Len(t)) = t

\* JavaScript truthiness of a string: the empty string is falsy
Truthy(s) == Len(s) > 0

Sign(n) == IF n < 0 THEN -1 ELSE IF n > 0 THEN 1 ELSE 0

\* lexicographic comparison of two sequences of integers: -1, 0 or 1
LexCompare(x, y) ==
    LET n == IF Len(x) < Len(y) THEN Len(x) ELSE Len(y)
        diff == {i \in 1..n : x[i] # y[i]}
    IN  IF diff = {}
        THEN Sign(Len(x) - Len(y))
        ELSE LET i == CHOOSE j \in diff : \A k \in diff : j <= k
             IN  Sign(x[i] - y[i])

\* collation weights of the alphabet: the letter (primary), then its case with
\* lower case first (tertiary), as in the default locale collation
Primary(c) == IF LowerChar(c) = "a" THEN 1 ELSE 2
Tertiary(c) == IF c = LowerChar(c) THEN 0 ELSE 1

\* String.prototype.localeCompare: letters decide over the whole string before
\* case does
localeCompare(s, t) ==
    LET p == LexCompare([i \in 1..Len(s) |-> Primary(s[i])],
                        [i \in 1..Len(t) |-> Primary(t[i])])
    IN  IF p # 0
        THEN p
        ELSE LexCompare([i \in 1..Len(s) |-> Tertiary(s[i])],
                        [i \in 1..Len(t) |-> Tertiary(t[i])])

----------------------------------------------------------------------------
(* applySortOption, app.js:137-150 *)

SortOptions == {"alphabetical", "reverse", "length", "none"}

\* keyFn: the default x => x, or item => item.name
Key(x, kf) == IF kf = "name" THEN x.name ELSE x

\* Comparator with the 'reverse' case comparing a to b like 'alphabetical'
ComparatorReverseAsAlphabetical(opt, a, b, kf) ==
    CASE opt = "alphabetical" -> localeCompare(Key(a, kf), Key(b, kf))
      [] opt = "reverse"      -> localeCompare(Key(a, kf), Key(b, kf))
      [] opt = "length"       -> Len(Key(a, kf)) - Len(Key(b, kf))
      [] OTHER                -> 0

\* the comparator each case of the switch hands to Array.prototype.sort
Comparator(opt, a, b, kf) ==
    CASE opt = "alphabetical" -> localeCompare(Key(a, kf), Key(b, kf))
      [] opt = "reverse"      -> localeCompare(Key(b, kf), Key(a, kf))
      [] opt = "length"       -> Len(Key(a, kf)) - Len(Key(b, kf))
      [] OTHER                -> 0

\* one step of a stable sort: x goes before the first element that the
\* comparator puts strictly after it
RECURSIVE Insert(_, _, _, _)
Insert(x, s, opt, kf) ==
    IF s = <<>> THEN <<x>>
    ELSE IF Comparator(opt, Head(s), x, kf) > 0
         THEN <<x>> \o s
         ELSE <<Head(s)>> \o Insert(x, Tail(s), opt, kf)

\* Array.prototype.sort with a comparator: stable (ECMAScript 2019)
RECURSIVE ArraySort(_, _, _)
ArraySort(s, opt, kf) ==
    IF s = <<>> THEN <<>>
    ELSE Insert(s[Len(s)], ArraySort(SubSeq(s, 1, Len(s) - 1), opt, kf), opt, kf)

applySortOption(arr, opt, kf) ==
    LET copy == arr     \* const sorted = [...array]
    IN  IF opt \in {"alphabetical", "reverse", "length"}
        THEN ArraySort(copy, opt, kf)
        ELSE copy

\* the argument array after the call: line 138 copies it, and sort() reorders
\* the copy
ArgumentAfterSort(arr, opt, kf) == arr

----------------------------------------------------------------------------
(* Views, app.js:1-16 *)

entityTypes == {"distributors", "buying_groups", "dealers", "pos_providers",
                "incentive_platforms", "sales_agencies", "integrators",
                "service_providers", "ecommerce_platforms"}

\* the views the tab buttons switch between in this model
Views == {"states", "manufacturers", "dealers"}

Countries == {"United States", "Canada"}

CountryFilters == {"all"} \cup Countries

\* the options of #sort
SortChoices == {"alphabetical", "reverse", "length"}

\* values typed into #search
SearchValues == {<<>>, <<"A", "b">>}

----------------------------------------------------------------------------
(* JSON documents: an object is a function on its keys; the 'North America' *)
(* object, whose key order matters, is a sequence of [country, data]        *)

Null == [null |-> TRUE]
Undefined == [undefined |-> TRUE]

IsNull(d) == "null" \in DOMAIN d
IsUndefined(d) == "undefined" \in DOMAIN d

\* Object.keys(obj)
ObjectKeys(obj) == [i \in 1..Len(obj) |-> obj[i].country]

HasKey(obj, c) == \E i \in 1..Len(obj) : obj[i].country = c

\* obj[c]
Get(obj, c) ==
    IF HasKey(obj, c)
    THEN obj[CHOOSE i \in 1..Len(obj) : obj[i].country = c].data
    ELSE Undefined

\* obj.key of a document or country object, undefined when the key is absent
Field(obj, k) == IF k \in DOMAIN obj THEN obj[k] ELSE Undefined

StatesDoc ==
    [metadata |-> [source |-> "hardcoded", date_pulled |-> "2024-01-01"],
     NorthAmerica |->
        << [country |-> "United States",
            data |-> [states |-> << <<"B", "a">>, <<"A", "b">> >>]],
           [country |-> "Canada",
            data |-> [provinces |-> << <<"b">> >>,
                      territories |-> << <<"A", "b">>, <<"a">> >>]] >>]

\* states.json without its metadata object
StatesDocNoMetadata == [NorthAmerica |-> StatesDoc.NorthAmerica]

ManufacturersDoc ==
    [metadata |-> [source |-> "hardcoded", date_pulled |-> "2024-01-01",
                   total_manufacturers |-> "3"],
     NorthAmerica |->
        << [country |-> "United States",
            data |-> [manufacturers |->
                        << [name |-> <<"b", "A">>, website |-> "https://ba"],
                           [name |-> <<"A", "b">>] >>]],
           [country |-> "Canada",
            data |-> [manufacturers |->
                        << [name |-> <<"A", "b">>, website |-> "https://ab"] >>]] >>]

\* manufacturers.json without its 'North America' object
ManufacturersDocNoNA == [metadata |-> ManufacturersDoc.metadata]

\* dealers.json: no Canadian dealers, so 'Canada' is not a key
DealersDoc ==
    [metadata |-> [source |-> "hardcoded", date_pulled |-> "2024-01-01",
                   total_count |-> "3"],
     NorthAmerica |->
        << [country |-> "United States",
            data |-> [entities |->
                        << [name |-> <<"a", "B">>, website |-> "https://ab"],
                           [name |-> <<"a">>] >>]] >>]

\* the documents data/<view>.json can hold
Files(view) ==
    CASE view = "states"        -> {StatesDoc, StatesDocNoMetadata}
      [] view = "manufacturers" -> {ManufacturersDoc, ManufacturersDocNoNA}
      [] OTHER                  -> {DealersDoc}

----------------------------------------------------------------------------
(* Results of the handlers' functions.  A function either returns or        *)
(* throws; `threw` tells which.                                             *)

RECURSIVE Concat(_)
Concat(seqs) == IF seqs = <<>> THEN <<>> ELSE Head(seqs) \o Concat(Tail(seqs))

EmptyState(text) == [kind |-> "empty-state", text |-> text, items |-> <<>>]
Html(items) == [kind |-> "html", text |-> "", items |-> items]
InitialContent == [kind |-> "initial", text |-> "", items |-> <<>>]

NoResults == EmptyState("No results found")
ErrorLoading == EmptyState("Error loading data")

\* item.website, '' when the item has none
Website(item) == IF "website" \in DOMAIN item THEN item.website ELSE ""

DivisionKeys == <<"states", "provinces", "territories">>

----------------------------------------------------------------------------
(* sortData, app.js:115-135 *)

\* one country object after sortData's writes; `view` is currentView
SortCountry(countryData, opt, view) ==
    IF view = "states"
    THEN [k \in DOMAIN countryData |->
            IF k \in {"states", "provinces", "territories"}
            THEN applySortOption(countryData[k], opt, "identity")
            ELSE countryData[k]]
    ELSE [k \in DOMAIN countryData |->
            IF k = "manufacturers"
            THEN applySortOption(countryData[k], opt, "name")
            ELSE countryData[k]]

\* throws when a country's value is undefined (countryData[key] of undefined)
sortDataThrows(data) == \E i \in 1..Len(data) : IsUndefined(data[i].data)

sortData(data, opt, view) ==
    [i \in 1..Len(data) |->
        [country |-> data[i].country,
         data |-> SortCountry(data[i].data, opt, view)]]

----------------------------------------------------------------------------
(* render, app.js:152-239 *)

\* the items of one country section, in the order the section lists them
RenderCountry(country, countryData, view) ==
    IF view = "states"
    THEN Concat([g \in 1..3 |->
            IF DivisionKeys[g] \in DOMAIN countryData
            THEN [j \in 1..Len(countryData[DivisionKeys[g]]) |->
                    [country |-> country, division |-> DivisionKeys[g],
                     name |-> countryData[DivisionKeys[g]][j], website |-> ""]]
            ELSE <<>>])
    ELSE IF "manufacturers" \in DOMAIN countryData
         THEN [j \in 1..Len(countryData.manufacturers) |->
                 [country |-> country, division |-> "",
                  name |-> countryData.manufacturers[j].name,
                  website |-> Website(countryData.manufacturers[j])]]
         ELSE <<>>

render(data, view) ==
    IF Len(data) = 0
    THEN NoResults
    ELSE LET items == Concat([i \in 1..Len(data) |->
                         RenderCountry(data[i].country, data[i].data, view)])
         IN  IF items = <<>> THEN NoResults ELSE Html(items)

----------------------------------------------------------------------------
(* applyFilters, app.js:67-113, and renderFlatList, app.js:241-296 *)

\* JSON.parse(JSON.stringify(x)), line 76: a copy of x that shares nothing
\* with it
JSONClone(x) == x

\* the working copy aliasing the original: the writes reach the country
\* objects of currentData
WritesReachOriginal(na, written) ==
    [i \in 1..Len(na) |->
        IF HasKey(written, na[i].country)
        THEN [country |-> na[i].country, data |-> Get(written, na[i].country)]
        ELSE na[i]]

\* currentData['North America'] after the handler has written `written` into
\* the country objects of its working copy (lines 89-101 and 122): the copy
\* of line 76 shares nothing with the original, which keeps its value
OriginalAfterWrites(na, written) == na

Returned(c, d) == [threw |-> FALSE, rendered |-> TRUE, content |-> c, data |-> d]
Thrown(d) == [threw |-> TRUE, rendered |-> FALSE, content |-> InitialContent, data |-> d]
Nothing(d) == [threw |-> FALSE, rendered |-> FALSE, content |-> InitialContent, data |-> d]

\* the match without toLowerCase() on the name
MatchesCaseSensitive(name, searchTerm) == includes(name, searchTerm)

\* the search match of lines 90, 95, 100, 270, 316, 323, 330, 343, 359
Matches(name, searchTerm) == includes(toLowerCase(name), searchTerm)

\* lines 88-102: each division array replaced by its matching elements
FilterCountry(countryData, searchTerm) ==
    [k \in DOMAIN countryData |->
        IF k \in {"states", "provinces", "territories"}
        THEN SelectSeq(countryData[k], LAMBDA x : Matches(x, searchTerm))
        ELSE countryData[k]]

\* lines 74-107, the states view
applyFiltersStates(doc, searchTerm, cf, opt, view) ==
    IF "NorthAmerica" \notin DOMAIN doc
    THEN Thrown(doc)                      \* JSON.parse(undefined)
    ELSE
    LET na == doc.NorthAmerica
        clone == JSONClone(na)
        filteredData == IF cf # "all"
                        THEN << [country |-> cf, data |-> Get(clone, cf)] >>
                        ELSE clone
    IN  IF sortDataThrows(filteredData)   \* lines 88 or 121 on undefined
        THEN Thrown(doc)
        ELSE
        LET searched == IF Truthy(searchTerm)
                        THEN [i \in 1..Len(filteredData) |->
                                [country |-> filteredData[i].country,
                                 data |-> FilterCountry(filteredData[i].data,
                                                        searchTerm)]]
                        ELSE filteredData
            sortedData == sortData(searched, opt, view)
        IN  Returned(render(sortedData, view),
                     [doc EXCEPT !.NorthAmerica =
                                    OriginalAfterWrites(na, sortedData)])

\* northAmerica[country]?.manufacturers || [] (or .entities)
ItemsOf(na, country, dataType) ==
    LET countryData == Get(na, country)
    IN  IF IsUndefined(countryData) \/ dataType \notin DOMAIN countryData
        THEN <<>>
        ELSE countryData[dataType]

\* the country filter ignored: every key, whatever the filter
SelectedCountriesAlways(na, cf) == ObjectKeys(na)

\* line 245 and lines 309, 338, 354
SelectedCountries(na, cf) == IF cf = "all" THEN ObjectKeys(na) ELSE <<cf>>

renderFlatList(doc, searchTerm, cf, opt, dataType) ==
    IF "NorthAmerica" \notin DOMAIN doc
    THEN Thrown(doc)                      \* Object.keys / index of undefined
    ELSE
    LET northAmerica == doc.NorthAmerica
        countries == SelectedCountries(northAmerica, cf)
        collected == Concat([i \in 1..Len(countries) |->
                        LET items == ItemsOf(northAmerica, countries[i], dataType)
                        IN  [j \in 1..Len(items) |->
                                [country |-> countries[i]] @@ items[j]]])
        filtered == IF Truthy(searchTerm)
                    THEN SelectSeq(collected,
                                   LAMBDA item : Matches(item.name, searchTerm))
                    ELSE collected
        allItems == applySortOption(filtered, opt, "name")
    IN  IF Len(allItems) = 0
        THEN Returned(NoResults, doc)
        ELSE Returned(Html([i \in 1..Len(allItems) |->
                              [country |-> allItems[i].country, division |-> "",
                               name |-> allItems[i].name,
                               website |-> Website(allItems[i])]]),
                      doc)

applyFilters(doc, view, searchValue, cf, opt) ==
    IF IsNull(doc) THEN Nothing(doc)      \* if (!currentData) return
    ELSE LET searchTerm == toLowerCase(searchValue)
         IN  IF view = "states"
             THEN applyFiltersStates(doc, searchTerm, cf, opt, view)
             ELSE IF view = "manufacturers"
             THEN renderFlatList(doc, searchTerm, cf, opt, "manufacturers")
             ELSE IF view \in entityTypes
             THEN renderFlatList(doc, searchTerm, cf, opt, "entities")
             ELSE Nothing(doc)

----------------------------------------------------------------------------
(* getCurrentFilteredData, app.js:298-371 *)

Rows(r) == [threw |-> FALSE, rows |-> r]
RowsThrown == [threw |-> TRUE, rows |-> <<>>]

\* the Type of line 317 pasted into the province rows of line 324
TypeOfProvinceAsState(key) ==
    CASE key = "states" -> "State"
      [] key = "provinces" -> "State"
      [] OTHER -> "Territory"

TypeOf(key) ==
    CASE key = "states" -> "State"
      [] key = "provinces" -> "Province"
      [] OTHER -> "Territory"

\* StateRows without the territories block of lines 328-334
StateRowsWithoutTerritories(country, countryData, searchTerm) ==
    Concat([g \in 1..2 |->
        IF DivisionKeys[g] \in DOMAIN countryData
        THEN LET kept == SelectSeq(countryData[DivisionKeys[g]],
                            LAMBDA x : ~Truthy(searchTerm) \/ Matches(x, searchTerm))
             IN  [j \in 1..Len(kept) |->
                    [Country |-> country, Type |-> TypeOf(DivisionKeys[g]),
                     Name |-> kept[j]]]
        ELSE <<>>])

\* lines 314-334 for one country
StateRows(country, countryData, searchTerm) ==
    Concat([g \in 1..3 |->
        IF DivisionKeys[g] \in DOMAIN countryData
        THEN LET kept == SelectSeq(countryData[DivisionKeys[g]],
                            LAMBDA x : ~Truthy(searchTerm) \/ Matches(x, searchTerm))
             IN  [j \in 1..Len(kept) |->
                    [Country |-> country, Type |-> TypeOf(DivisionKeys[g]),
                     Name |-> kept[j]]]
        ELSE <<>>])

\* lines 340-351 and 356-367
FlatRows(na, countries, searchTerm, dataType) ==
    Concat([i \in 1..Len(countries) |->
        LET kept == SelectSeq(ItemsOf(na, countries[i], dataType),
                        LAMBDA x : ~Truthy(searchTerm) \/ Matches(x.name, searchTerm))
        IN  [j \in 1..Len(kept) |->
                [Country |-> countries[i], Name |-> kept[j].name,
                 Website |-> Website(kept[j])]]])

getCurrentFilteredData(doc, view, searchValue, cf, opt) ==
    IF IsNull(doc) THEN Rows(<<>>)
    ELSE
    LET searchTerm == toLowerCase(searchValue)
        known == view = "states" \/ view = "manufacturers" \/ view \in entityTypes
    IN  IF ~known THEN Rows(<<>>)
        ELSE IF "NorthAmerica" \notin DOMAIN doc THEN RowsThrown
        ELSE
        LET northAmerica == doc.NorthAmerica
            countries == SelectedCountries(northAmerica, cf)
        IN  IF view = "states"
            THEN IF \E i \in 1..Len(countries) :
                        IsUndefined(Get(northAmerica, countries[i]))
                 THEN RowsThrown          \* countryData.states of undefined
                 ELSE Rows(Concat([i \in 1..Len(countries) |->
                            StateRows(countries[i],
                                      Get(northAmerica, countries[i]),
                                      searchTerm)]))
            ELSE IF view = "manufacturers"
            THEN Rows(FlatRows(northAmerica, countries, searchTerm, "manufacturers"))
            ELSE Rows(FlatRows(northAmerica, countries, searchTerm, "entities"))

----------------------------------------------------------------------------
(* displayMetadata, app.js:34-54 *)

InitialMetadata == [written |-> FALSE, source |-> "", updated |-> "", total |-> ""]

\* the text written to #metadata; a missing total prints as "undefined"
displayMetadata(metadata, view) ==
    IF IsUndefined(metadata)
    THEN [threw |-> TRUE, written |-> FALSE, text |-> InitialMetadata]
    ELSE
    LET source == IF metadata.source = "hardcoded"
                  THEN "Hardcoded Fallback" ELSE metadata.source
        total(k) == IF k \in DOMAIN metadata THEN metadata[k] ELSE "undefined"
        text(t) == [written |-> TRUE, source |-> source,
                    updated |-> metadata.date_pulled, total |-> t]
    IN  IF view = "states"
        THEN [threw |-> FALSE, written |-> TRUE, text |-> text("")]
        ELSE IF view = "manufacturers"
        THEN [threw |-> FALSE, written |-> TRUE,
              text |-> text(total("total_manufacturers"))]
        ELSE IF view \in entityTypes
        THEN [threw |-> FALSE, written |-> TRUE, text |-> text(total("total_count"))]
        ELSE [threw |-> FALSE, written |-> FALSE, text |-> InitialMetadata]

----------------------------------------------------------------------------
(* loadData, app.js:18-32, and the network *)

Filename(view) == view \o ".json"
Url(view) == "data/" \o Filename(view)

Urls == {Url(v) : v \in Views}

ViewOf(url) == CHOOSE v \in Views : Url(v) = url

\* how a fetch of url can settle: the request fails, the body is not JSON
\* (also the body of an HTTP error page), or the body parses to a document
Responses(url) ==
    {[kind |-> "rejected", data |-> Null], [kind |-> "invalid", data |-> Null]}
    \cup {[kind |-> "json", data |-> d] : d \in Files(ViewOf(url))}

InFlight(p) ==
    LET RECURSIVE Sum(_)
        Sum(S) == IF S = {} THEN 0
                  ELSE LET u == CHOOSE x \in S : TRUE IN p[u] + Sum(S \ {u})
    IN  Sum(DOMAIN p)

\* two requests for the file instead of one
StartFetchTwice(p, view) == [p EXCEPT ![Url(view)] = @ + 2]

\* line 22: one fetch of data/<view>.json leaves
StartFetch(p, view) == [p EXCEPT ![Url(view)] = @ + 1]

Event(op, outcome) ==
    [op |-> op, outcome |-> outcome, view |-> "", format |-> "", rows |-> <<>>]

\* loadData with applyFilters() called after the try block: what it throws
\* leaves loadData
loadDataBodyFiltersOutsideTry(data, view, searchValue, cf, opt, oldContent, oldMetadata) ==
    LET md == IF IsNull(data)
              THEN [threw |-> TRUE, written |-> FALSE, text |-> InitialMetadata]
              ELSE displayMetadata(Field(data, "metadata"), view)
        af == applyFilters(data, view, searchValue, cf, opt)
    IN  IF md.threw
        THEN [data |-> data, caught |-> TRUE, escaped |-> FALSE,
              content |-> ErrorLoading, metadata |-> oldMetadata]
        ELSE [data |-> af.data,
              caught |-> FALSE,
              escaped |-> af.threw,
              content |-> IF af.rendered THEN af.content ELSE oldContent,
              metadata |-> IF md.written THEN md.text ELSE oldMetadata]

\* the body of loadData's try block from line 24 on, and its catch: the state
\* it leaves, given the parsed document
loadDataBody(data, view, searchValue, cf, opt, oldContent, oldMetadata) ==
    LET md == IF IsNull(data)
              THEN [threw |-> TRUE, written |-> FALSE, text |-> InitialMetadata]
              ELSE displayMetadata(Field(data, "metadata"), view)
        af == applyFilters(data, view, searchValue, cf, opt)
    IN  IF md.threw
        THEN [data |-> data, caught |-> TRUE, escaped |-> FALSE,
              content |-> ErrorLoading, metadata |-> oldMetadata]
        ELSE [data |-> af.data,
              caught |-> af.threw,
              escaped |-> FALSE,
              content |-> IF af.threw THEN ErrorLoading
                          ELSE IF af.rendered THEN af.content ELSE oldContent,
              metadata |-> IF md.written THEN md.text ELSE oldMetadata]

----------------------------------------------------------------------------
(* The browser: state after the script has run (line 447 has started the   *)
(* load of 'states'), and one action per handler                           *)

NoFetch == [u \in Urls |-> 0]

CsvIdle == [outcome |-> "", text |-> <<>>]

SortIdle == [returned |-> FALSE, value |-> <<>>]

Init ==
    /\ currentView = "states"
    /\ currentData = Null
    /\ search = <<>>
    /\ countryFilter = "all"
    /\ sortOption = "alphabetical"
    /\ content = InitialContent
    /\ metadataDiv = InitialMetadata
    /\ pending = StartFetch(NoFetch, "states")
    /\ event = Event("init", "")
    /\ array = <<>>
    /\ option = ""
    /\ keyFn = ""
    /\ sorted = SortIdle
    /\ csvRows = <<>>
    /\ csvFile = CsvIdle

\* switchView, lines 56-65 (the tab buttons, lines 424-428)
switchView(view) ==
    /\ InFlight(pending) < MaxInFlight
    /\ currentView' = view
    /\ pending' = StartFetch(pending, view)
    /\ event' = Event("switchView", "")
    /\ UNCHANGED <<currentData, search, countryFilter, sortOption, content,
                   metadataDiv>>
    /\ UNCHANGED sortVars
    /\ UNCHANGED csvVars

\* a fetch settles and loadData runs on from line 22 to its end
loadDataSettles(url, response) ==
    /\ pending[url] > 0
    /\ pending' = [pending EXCEPT ![url] = @ - 1]
    /\ \/ /\ response.kind # "json"       \* fetch or response.json() rejects
          /\ content' = ErrorLoading
          /\ event' = Event("loadData", "caught")
          /\ UNCHANGED <<currentData, metadataDiv>>
       \/ /\ response.kind = "json"
          /\ LET r == loadDataBody(response.data, currentView, search,
                                   countryFilter, sortOption, content, metadataDiv)
             IN  /\ currentData' = r.data
                 /\ content' = r.content
                 /\ metadataDiv' = r.metadata
                 /\ event' = Event("loadData",
                                   IF r.escaped THEN "uncaught"
                                   ELSE IF r.caught THEN "caught" ELSE "rendered")
    /\ UNCHANGED <<currentView, search, countryFilter, sortOption>>
    /\ UNCHANGED sortVars
    /\ UNCHANGED csvVars

\* applyFilters as the listener of a control, lines 430-432, after the control
\* has taken its new value
Listener(newSearch, newCountry, newSort) ==
    LET r == applyFilters(currentData, currentView, newSearch, newCountry, newSort)
    IN  /\ currentData' = r.data
        /\ content' = IF r.rendered THEN r.content ELSE content
        /\ event' = Event("applyFilters",
                          IF r.threw THEN "uncaught"
                          ELSE IF r.rendered THEN "rendered" ELSE "returned")
        /\ UNCHANGED <<currentView, metadataDiv, pending>>
        /\ UNCHANGED sortVars
        /\ UNCHANGED csvVars

searchInput(value) ==
    /\ value # search
    /\ search' = value
    /\ UNCHANGED <<countryFilter, sortOption>>
    /\ Listener(value, countryFilter, sortOption)

countryChange(country) ==
    /\ country # countryFilter
    /\ countryFilter' = country
    /\ UNCHANGED <<search, sortOption>>
    /\ Listener(search, country, sortOption)

sortChange(opt) ==
    /\ opt # sortOption
    /\ sortOption' = opt
    /\ UNCHANGED <<search, countryFilter>>
    /\ Listener(search, countryFilter, opt)

Formats == {"csv", "json", "excel"}

\* downloadCSV, downloadJSON, downloadExcel, lines 373-422: the rows handed
\* to the serializer and the view in the file's name, or the alert
download(format) ==
    /\ LET d == getCurrentFilteredData(currentData, currentView, search,
                                       countryFilter, sortOption)
       IN  event' = IF d.threw THEN Event("download", "uncaught")
                    ELSE IF Len(d.rows) = 0 THEN Event("download", "alert")
                    ELSE [op |-> "download", outcome |-> "file",
                          view |-> currentView, format |-> format,
                          rows |-> d.rows]
    /\ UNCHANGED <<currentView, currentData, search, countryFilter, sortOption,
                   content, metadataDiv, pending>>
    /\ UNCHANGED sortVars
    /\ UNCHANGED csvVars

Next ==
    \/ \E view \in Views : switchView(view)
    \/ \E url \in Urls : \E response \in Responses(url) : loadDataSettles(url, response)
    \/ \E value \in SearchValues : searchInput(value)
    \/ \E country \in CountryFilters : countryChange(country)
    \/ \E opt \in SortChoices : sortChange(opt)
    \/ \E format \in Formats : download(format)

Spec == Init /\ [][Next]_vars

----------------------------------------------------------------------------
(* applySortOption on its own: every array of up to MaxLen strings or items *)
(* under every sort option                                                  *)

SortStrings == {<<"a">>, <<"A">>, <<"b">>, <<"a", "b">>, <<"B", "a">>}

SortItems == {[name |-> <<"a">>, website |-> "https://a"],
              [name |-> <<"a">>],
              [name |-> <<"A">>],
              [name |-> <<"b">>, website |-> "https://b"],
              [name |-> <<"B", "a">>]}

ArraysOf(S) == UNION {[1..n -> S] : n \in 0..MaxLen}

SortInit ==
    /\ currentView = "states"
    /\ currentData = Null
    /\ search = <<>>
    /\ countryFilter = "all"
    /\ sortOption = "alphabetical"
    /\ content = InitialContent
    /\ metadataDiv = InitialMetadata
    /\ pending = StartFetch(NoFetch, "states")
    /\ event = Event("init", "")
    /\ \/ keyFn = "identity" /\ array \in ArraysOf(SortStrings)
       \/ keyFn = "name" /\ array \in ArraysOf(SortItems)
    /\ option \in SortOptions
    /\ sorted = SortIdle
    /\ csvRows = <<>>
    /\ csvFile = CsvIdle

\* one call applySortOption(array, option, keyFn)
sortCall ==
    /\ option \in SortOptions
    /\ ~sorted.returned
    /\ sorted' = [returned |-> TRUE, value |-> applySortOption(array, option, keyFn)]
    /\ array' = ArgumentAfterSort(array, option, keyFn)
    /\ UNCHANGED <<option, keyFn>>
    /\ UNCHANGED appVars
    /\ UNCHANGED csvVars

SortNext == sortCall

SortSpec == SortInit /\ [][SortNext]_vars

\* the browser and the calls of applySortOption on their own, side by side:
\* the browser runs while no call is set up
PureInit == Init \/ SortInit

PureNext ==
    \/ option = "" /\ Next
    \/ sortCall

PureSpec == PureInit /\ [][PureNext]_vars

----------------------------------------------------------------------------
(* downloadCSV, app.js:373-394, on its own: the text of the file for rows   *)
(* whose values hold commas, double quotes and line feeds                   *)

\* the characters of a key of a row, one string per character
KeyChars(h) ==
    CASE h = "Country" -> <<"C", "o", "u", "n", "t", "r", "y">>
      [] h = "Type" -> <<"T", "y", "p", "e">>
      [] h = "Name" -> <<"N", "a", "m", "e">>
      [] h = "Website" -> <<"W", "e", "b", "s", "i", "t", "e">>

\* Object.keys of a row: the keys in the order the object literals of lines
\* 317, 324, 331 (Country, Type, Name) and 343, 359 (Country, Name, Website)
\* write them
RowKeys(row) ==
    IF "Type" \in DOMAIN row THEN <<"Country", "Type", "Name">>
    ELSE <<"Country", "Name", "Website">>

\* Array.prototype.join
RECURSIVE Join(_, _)
Join(parts, sep) ==
    IF Len(parts) = 0 THEN <<>>
    ELSE IF Len(parts) = 1 THEN parts[1]
    ELSE parts[1] \o sep \o Join(Tail(parts), sep)

\* value.replace(/"/g, '""')
RECURSIVE DoubleQuotes(_)
DoubleQuotes(value) ==
    IF value = <<>> THEN <<>>
    ELSE (IF Head(value) = "\"" THEN <<"\"", "\"">> ELSE <<Head(value)>>)
         \o DoubleQuotes(Tail(value))

\* line 385 without the replace: the value between two double quotes as is
QuoteWithoutDoubling(value) == <<"\"">> \o value \o <<"\"">>

\* line 385
Quote(value) == <<"\"">> \o DoubleQuotes(value) \o <<"\"">>

\* lines 384-385: row[h] || '' in quotes
CsvField(row, h) ==
    LET value == IF h \in DOMAIN row /\ Truthy(row[h]) THEN row[h] ELSE <<>>
    IN  Quote(value)

\* lines 380-387
CsvText(rows) ==
    LET headers == RowKeys(rows[1])
        headerLine == Join([k \in 1..Len(headers) |-> KeyChars(headers[k])], <<",">>)
        recordLine(row) ==
            Join([k \in 1..Len(headers) |-> CsvField(row, headers[k])], <<",">>)
    IN  Join(<<headerLine>> \o [i \in 1..Len(rows) |-> recordLine(rows[i])],
             <<"\n">>)

\* lines 374-393 given the rows of getCurrentFilteredData: the alert of line
\* 376 or the text in the Blob of line 389
CsvFile(rows) ==
    IF Len(rows) = 0 THEN [outcome |-> "alert", text |-> <<>>]
    ELSE [outcome |-> "file", text |-> CsvText(rows)]

CsvChars == {"a", ",", "\"", "\n"}

CsvValues == UNION {[1..n -> CsvChars] : n \in 0..MaxFieldLen}

\* rows of the states view
CsvStateRows ==
    {[Country |-> <<"a">>, Type |-> <<"a">>, Name |-> n] : n \in CsvValues}

\* rows of the manufacturers and entity views
CsvFlatRows ==
    {[Country |-> <<"a">>, Name |-> n, Website |-> w] :
        n \in CsvValues, w \in {<<>>, <<"a">>, <<"\"">>}}

\* a second row of the manufacturers and entity views
CsvSecondFlatRows ==
    {[Country |-> <<"\n">>, Name |-> <<"\"", ",">>, Website |-> <<>>],
     [Country |-> <<"a">>, Name |-> <<>>, Website |-> <<",", "\"">>]}

CsvData ==
    {<<>>}
    \cup {<<r>> : r \in CsvStateRows \cup CsvFlatRows}
    \cup {<<r1, r2>> : r1 \in CsvStateRows, r2 \in CsvStateRows}
    \cup {<<r1, r2>> : r1 \in CsvFlatRows, r2 \in CsvSecondFlatRows}

CsvInit ==
    /\ currentView = "states"
    /\ currentData = Null
    /\ search = <<>>
    /\ countryFilter = "all"
    /\ sortOption = "alphabetical"
    /\ content = InitialContent
    /\ metadataDiv = InitialMetadata
    /\ pending = StartFetch(NoFetch, "states")
    /\ event = Event("init", "")
    /\ array = <<>>
    /\ option = ""
    /\ keyFn = ""
    /\ sorted = SortIdle
    /\ csvRows \in CsvData
    /\ csvFile = CsvIdle

\* one call of downloadCSV with csvRows the rows getCurrentFilteredData gave
downloadCSV ==
    /\ csvFile.outcome = ""
    /\ csvFile' = CsvFile(csvRows)
    /\ UNCHANGED csvRows
    /\ UNCHANGED appVars
    /\ UNCHANGED sortVars

CsvNext == downloadCSV

CsvSpec == CsvInit /\ [][CsvNext]_vars

----------------------------------------------------------------------------
(* Properties *)

Count(x, s) == Cardinality({i \in 1..Len(s) : s[i] = x})

\* a and b hold the same elements with the same multiplicities
SameBag(a, b) ==
    /\ Len(a) = Len(b)
    /\ \A i \in 1..Len(a) : Count(a[i], a) = Count(a[i], b)

\* what the two functions give in the current state
Shown == applyFilters(currentData, currentView, search, countryFilter, sortOption)
Exported == getCurrentFilteredData(currentData, currentView, search, countryFilter,
                                   sortOption)

ShownPairs(items) == [i \in 1..Len(items) |-> <<items[i].country, items[i].name>>]
RowPairs(rows) == [i \in 1..Len(rows) |-> <<rows[i].Country, rows[i].Name>>]

\* C5: applySortOption returns a permutation of its argument, ordered by the
\* option's comparator: keys non-decreasing under localeCompare for
\* 'alphabetical', non-increasing for 'reverse', key lengths non-decreasing
\* for 'length'; any other option returns the input order.
C5_SortIsOrderedPermutation ==
    sorted.returned =>
        LET v == sorted.value
            adjacent == 1..(Len(v) - 1)
        IN  /\ SameBag(v, array)
            /\ option = "alphabetical" =>
                 \A i \in adjacent :
                    localeCompare(Key(v[i], keyFn), Key(v[i + 1], keyFn)) <= 0
            /\ option = "reverse" =>
                 \A i \in adjacent :
                    localeCompare(Key(v[i], keyFn), Key(v[i + 1], keyFn)) >= 0
            /\ option = "length" =>
                 \A i \in adjacent :
                    Len(Key(v[i], keyFn)) <= Len(Key(v[i + 1], keyFn))
            /\ option \notin {"alphabetical", "reverse", "length"} => v = array

\* a call that reordered an array of items holding two equal names
C5_Witness ==
    /\ sorted.returned
    /\ option = "reverse"
    /\ keyFn = "name"
    /\ Len(array) = 3
    /\ sorted.value # array
    /\ \E i, j \in 1..3 : i # j /\ array[i] # array[j] /\ array[i].name = array[j].name

\* the names a country object holds for a view, in document order
NamesIn(countryData, view) ==
    IF IsUndefined(countryData) THEN <<>>
    ELSE IF view = "states"
    THEN Concat([g \in 1..3 |-> IF DivisionKeys[g] \in DOMAIN countryData
                                THEN countryData[DivisionKeys[g]] ELSE <<>>])
    ELSE LET k == IF view = "manufacturers" THEN "manufacturers" ELSE "entities"
         IN  IF k \in DOMAIN countryData
             THEN [j \in 1..Len(countryData[k]) |-> countryData[k][j].name]
             ELSE <<>>

\* the (country, name) pairs of the loaded document in one country
PairsOf(country) ==
    LET names == NamesIn(Get(currentData.NorthAmerica, country), currentView)
    IN  [j \in 1..Len(names) |-> <<country, names[j]>>]

\* the pairs of the countries the filter selects
Candidates ==
    LET na == currentData.NorthAmerica
    IN  IF countryFilter = "all"
        THEN Concat([i \in 1..Len(na) |-> PairsOf(na[i].country)])
        ELSE PairsOf(countryFilter)

\* case-insensitive containment of the value of #search in a name
KeptBySearch(pair) ==
    search = <<>> \/ includes(toLowerCase(pair[2]), toLowerCase(search))

HasDocument == ~IsNull(currentData) /\ "NorthAmerica" \in DOMAIN currentData

\* C1: the rows getCurrentFilteredData returns are, as a multiset of
\* (country, name) pairs, exactly the items applyFilters renders for the same
\* document, view, search term and country filter; one throws exactly when
\* the other does, and the content a handler has just rendered holds the
\* pairs an export of that state would hold.
C1_ExportMatchesDisplay ==
    /\ ~IsNull(currentData) => (Shown.threw <=> Exported.threw)
    /\ Shown.rendered =>
         /\ ~Exported.threw
         /\ SameBag(ShownPairs(Shown.content.items), RowPairs(Exported.rows))
    /\ event.outcome = "rendered" =>
         /\ ~Exported.threw
         /\ SameBag(ShownPairs(content.items), RowPairs(Exported.rows))
    /\ event.outcome = "file" =>
         /\ Shown.rendered
         /\ SameBag(ShownPairs(Shown.content.items), RowPairs(event.rows))

\* a search has just rendered several items
C1_Witness ==
    /\ event.op = "applyFilters"
    /\ event.outcome = "rendered"
    /\ search # <<>>
    /\ content.kind = "html"
    /\ Len(content.items) >= 2
    /\ Len(Exported.rows) >= 2

\* C2: the rows handed to the serializers are in the order of the selected
\* sort option, the order in which the items are displayed.
C2_ExportInDisplayOrder ==
    event.outcome = "file" /\ content.kind = "html" =>
        RowPairs(event.rows) = ShownPairs(content.items)

\* C3: an item is kept by applyFilters and by getCurrentFilteredData iff the
\* search value is empty or the lower-cased name contains the lower-cased
\* value; country and website play no part.
C3_SearchIsContainment ==
    HasDocument =>
        /\ Shown.rendered =>
             SameBag(ShownPairs(Shown.content.items),
                     SelectSeq(Candidates, KeptBySearch))
        /\ ~Exported.threw =>
             SameBag(RowPairs(Exported.rows), SelectSeq(Candidates, KeptBySearch))

\* a search in mixed case keeps some of the selected items and drops others
C3_Witness ==
    /\ HasDocument
    /\ event.outcome = "file"
    /\ search = <<"A", "b">>
    /\ Len(event.rows) >= 1
    /\ Len(event.rows) < Len(Candidates)
    /\ Shown.rendered
    /\ Len(Shown.content.items) = Len(event.rows)

\* C4: with the filter 'all' the matching items of every country key are
\* shown and exported; with a country selected every item shown and every
\* row exported belongs to that country.
C4_CountryIsEquality ==
    HasDocument =>
        /\ countryFilter = "all" =>
             \A i \in 1..Len(currentData.NorthAmerica) :
                LET kept == SelectSeq(PairsOf(currentData.NorthAmerica[i].country),
                                      KeptBySearch)
                IN  \A j \in 1..Len(kept) :
                       /\ Shown.rendered =>
                            Count(kept[j], ShownPairs(Shown.content.items))
                              = Count(kept[j], kept)
                       /\ ~Exported.threw =>
                            Count(kept[j], RowPairs(Exported.rows))
                              = Count(kept[j], kept)
        /\ countryFilter # "all" =>
             /\ Shown.rendered =>
                  \A i \in 1..Len(Shown.content.items) :
                     Shown.content.items[i].country = countryFilter
             /\ \A i \in 1..Len(Exported.rows) :
                     Exported.rows[i].Country = countryFilter
             /\ event.outcome = "rendered" =>
                  \A i \in 1..Len(content.items) :
                     content.items[i].country = countryFilter
             /\ event.outcome = "file" =>
                  \A i \in 1..Len(event.rows) :
                     event.rows[i].Country = countryFilter

\* a country is selected in a document holding several, and its items are on
\* screen and in the file
C4_Witness ==
    /\ HasDocument
    /\ countryFilter = "Canada"
    /\ Len(currentData.NorthAmerica) = 2
    /\ event.outcome = "file"
    /\ Len(event.rows) >= 1
    /\ content.kind = "html"
    /\ Len(content.items) = Len(event.rows)

\* C6: a view switch starts exactly one fetch, of data/<view>.json for the
\* view switched to; no other handler starts one; the one fetch no switch
\* caused is the initial load of 'states'.
C6_OneFetchPerSwitch ==
    /\ event.op = "init" =>
         pending = [u \in Urls |-> IF u = "data/states.json" THEN 1 ELSE 0]
    /\ [][/\ event'.op = "switchView" =>
               pending' = [pending EXCEPT
                              !["data/" \o currentView' \o ".json"] = @ + 1]
          /\ event'.op # "switchView" =>
               \A u \in Urls : pending'[u] <= pending[u]]_vars

\* a switch has put a second fetch in flight beside an unsettled one
C6_Witness ==
    /\ event.op = "switchView"
    /\ currentView = "dealers"
    /\ pending["data/dealers.json"] = 1
    /\ pending["data/states.json"] = 1

\* C7: every failure during a load is caught: the load ends with 'Error
\* loading data' in the content area, no exception leaves loadData, and a
\* load whose fetch has settled has ended either with that message or with
\* the content applyFilters renders for the new document.
C7_LoadEndsRenderedOrError ==
    event.op = "loadData" =>
        \/ /\ event.outcome = "caught"
           /\ content = ErrorLoading
        \/ /\ event.outcome = "rendered"
           /\ "metadata" \in DOMAIN currentData
           /\ ~Shown.threw
           /\ Shown.rendered
           /\ content = Shown.content
           /\ content # ErrorLoading

\* a load whose document made applyFilters throw has ended with the message
C7_Witness ==
    /\ event.op = "loadData"
    /\ event.outcome = "caught"
    /\ content = ErrorLoading
    /\ "metadata" \in DOMAIN currentData
    /\ Shown.threw

\* C8: when a load has just succeeded and no fetch is in flight, currentData
\* is the document of currentView.
C8_DataIsOfCurrentView ==
    /\ event.op = "loadData"
    /\ event.outcome = "rendered"
    /\ InFlight(pending) = 0
    => currentData \in Files(currentView)

\* C9: a load that ends with 'Error loading data' leaves currentData as it
\* was before the load ended.
C9_FailedLoadKeepsData ==
    [][event'.op = "loadData" /\ event'.outcome = "caught"
         => currentData' = currentData]_vars

C12_UnknownCountryGivesNoResults ==
    /\ HasDocument
    /\ countryFilter # "all"
    /\ ~HasKey(currentData.NorthAmerica, countryFilter)
    => /\ ~Shown.threw
       /\ Shown.content = NoResults
       /\ ~Exported.threw
       /\ Exported.rows = <<>>
       /\ event.op = "download" => event.outcome = "alert"

\* the search value kept case-insensitively in a name
KeptName(name) == search = <<>> \/ includes(toLowerCase(name), toLowerCase(search))

\* the rows one country of the loaded document maps to, in array order
ExpectedRowsOf(country) ==
    LET countryData == Get(currentData.NorthAmerica, country)
        types == <<"State", "Province", "Territory">>
        flat(k) == IF k \in DOMAIN countryData
                   THEN LET kept == SelectSeq(countryData[k],
                                              LAMBDA x : KeptName(x.name))
                        IN  [j \in 1..Len(kept) |->
                               [Country |-> country, Name |-> kept[j].name,
                                Website |-> IF "website" \in DOMAIN kept[j]
                                            THEN kept[j].website ELSE ""]]
                   ELSE <<>>
    IN  IF IsUndefined(countryData) THEN <<>>
        ELSE IF currentView = "states"
        THEN Concat([g \in 1..3 |->
                IF DivisionKeys[g] \in DOMAIN countryData
                THEN LET kept == SelectSeq(countryData[DivisionKeys[g]], KeptName)
                     IN  [j \in 1..Len(kept) |->
                            [Country |-> country, Type |-> types[g],
                             Name |-> kept[j]]]
                ELSE <<>>])
        ELSE IF currentView = "manufacturers" THEN flat("manufacturers")
        ELSE flat("entities")

\* the rows of the selected countries, countries in key order
ExpectedRows ==
    LET na == currentData.NorthAmerica
    IN  IF countryFilter = "all"
        THEN Concat([i \in 1..Len(na) |-> ExpectedRowsOf(na[i].country)])
        ELSE ExpectedRowsOf(countryFilter)

\* C13: getCurrentFilteredData maps the document to rows one-to-one: in the
\* states view one {Country, Type, Name} row per matching state, province and
\* territory, typed by the array it came from; in the manufacturers and
\* entity views one {Country, Name, Website} row per matching item, Website
\* '' when the item has none; rows in document order; no rows before a
\* document is loaded.
C13_RowsMapDocumentInOrder ==
    /\ IsNull(currentData) => ~Exported.threw /\ Exported.rows = <<>>
    /\ HasDocument /\ ~Exported.threw => Exported.rows = ExpectedRows
    /\ event.outcome = "file" => HasDocument /\ event.rows = ExpectedRows

\* an export of the states view holding a state, a province and a territory
C13_Witness ==
    /\ event.outcome = "file"
    /\ currentView = "states"
    /\ countryFilter = "all"
    /\ search = <<"A", "b">>
    /\ \A t \in {"State", "Territory"} :
          \E i \in 1..Len(event.rows) : event.rows[i].Type = t
    /\ Len(event.rows) = 2
    /\ event.rows[1].Country = "United States"
    /\ event.rows[2].Country = "Canada"


----------------------------------------------------------------------------
(* reading a CSV text back: fields separated by commas, records by line     *)
(* feeds; a field that opens with a double quote runs to its closing double *)
(* quote, and inside it two double quotes stand for one                     *)

Malformed == [ok |-> FALSE, records |-> <<>>]

RECURSIVE ParseFrom(_, _, _, _, _, _)
ParseFrom(text, i, mode, field, record, records) ==
    LET fld == [value |-> field, quoted |-> mode = "closed"]
    IN  IF i > Len(text)
        THEN IF mode = "quoted" THEN Malformed
             ELSE [ok |-> TRUE, records |-> Append(records, Append(record, fld))]
        ELSE
        LET c == text[i]
        IN  IF mode = "quoted"
            THEN IF c = "\""
                 THEN ParseFrom(text, i + 1, "closed", field, record, records)
                 ELSE ParseFrom(text, i + 1, "quoted", Append(field, c), record, records)
            ELSE IF c = ","
            THEN ParseFrom(text, i + 1, "start", <<>>, Append(record, fld), records)
            ELSE IF c = "\n"
            THEN ParseFrom(text, i + 1, "start", <<>>, <<>>,
                           Append(records, Append(record, fld)))
            ELSE IF c = "\""
            THEN IF mode = "start"
                 THEN ParseFrom(text, i + 1, "quoted", <<>>, record, records)
                 ELSE IF mode = "closed"
                 THEN ParseFrom(text, i + 1, "quoted", Append(field, c), record, records)
                 ELSE Malformed
            ELSE IF mode = "closed" THEN Malformed
            ELSE ParseFrom(text, i + 1, "unquoted", Append(field, c), record, records)

ParseCSV(text) == ParseFrom(text, 1, "start", <<>>, <<>>, <<>>)

\* the double quotes a value takes in the file: two around it and two for
\* each one inside it
QuotesFor(value) == 2 + 2 * Count("\"", value)

\* the double quotes the values of the cells take, a cell being a row number
\* and a key
RECURSIVE QuotesForAll(_, _)
QuotesForAll(rows, cells) ==
    IF cells = {} THEN 0
    ELSE LET cell == CHOOSE x \in cells : TRUE
         IN  QuotesFor(rows[cell[1]][cell[2]]) + QuotesForAll(rows, cells \ {cell})

\* C11: the file downloadCSV writes is a header line naming the keys of the
\* first row and then one record per row in row order; every value stands
\* in double quotes with each double quote inside it doubled; read back by
\* the CSV quoting rules the file gives the rows again, the same number of
\* them with the same values under the same keys, whatever commas, double
\* quotes and line feeds the values hold; with no rows there is the alert
\* and no file.
C11_CsvRoundTrip ==
    /\ csvFile.outcome = "alert" => csvRows = <<>>
    /\ csvFile.outcome # "" /\ csvRows = <<>> => csvFile.outcome = "alert"
    /\ csvFile.outcome = "file" =>
        LET parsed == ParseCSV(csvFile.text)
            keys == DOMAIN csvRows[1]
            header == parsed.records[1]
            KeyAt(k) == CHOOSE h \in keys : KeyChars(h) = header[k].value
            cells == {<<r, h>> : r \in 1..Len(csvRows), h \in keys}
        IN  /\ parsed.ok
            /\ Len(parsed.records) = Len(csvRows) + 1
            /\ Len(header) = Cardinality(keys)
            /\ \A h \in keys : \E k \in 1..Len(header) :
                    header[k].value = KeyChars(h)
            /\ \A r \in 1..Len(csvRows) :
                /\ Len(parsed.records[r + 1]) = Len(header)
                /\ \A k \in 1..Len(header) :
                    /\ parsed.records[r + 1][k].quoted
                    /\ parsed.records[r + 1][k].value = csvRows[r][KeyAt(k)]
            /\ Count("\"", csvFile.text) = QuotesForAll(csvRows, cells)

\* a file of two rows whose values hold a double quote, a comma and a line
\* feed
C11_Witness ==
    /\ csvFile.outcome = "file"
    /\ Len(csvRows) = 2
    /\ csvRows[1].Website = <<"\"">>
    /\ csvRows[2].Country = <<"\n">>
    /\ csvRows[2].Name = <<"\"", ",">>

====
